---- MODULE Spec2Model ----
(***************************************************************************)
(* A model of frontend/src/App.jsx: the App component's state and its      *)
(* handleQuery handler (one POST per click), and the ChartPreview          *)
(* component's shape inference and row sanitisation.                       *)
(*                                                                         *)
(* JavaScript values are tagged records; objects keep their own keys in    *)
(* Object.keys order as a sequence of <<key, value>> pairs.                *)
(***************************************************************************)
EXTENDS Integers, Sequences, FiniteSets, TLC

VARIABLES
    query,          \* useState: text of the input box, a sequence of characters
    sqlOutput,      \* useState
    latency,        \* useState
    chartData,      \* useState
    isLoading,      \* useState
    error,          \* useState
    pending,        \* handleQuery invocations suspended at an await
    finished,       \* the invocation of handleQuery that completed last
    lastEvent,      \* the event the last step handled
    data,           \* ChartPreview: the data prop
    chartStructure, \* ChartPreview: useMemo, the inferred shape
    sanitized,      \* ChartPreview: useMemo, the projected rows
    display,        \* ChartPreview: what the component returned
    firstRun        \* ChartPreview: the result of the first render

appVars == <<query, sqlOutput, latency, chartData, isLoading, error,
             pending, finished, lastEvent>>
chartVars == <<data, chartStructure, sanitized, display, firstRun>>
vars == <<appVars, chartVars>>

-----------------------------------------------------------------------------
(* JavaScript values *)

Undefined == [k |-> "undefined"]
Null == [k |-> "null"]
NaN == [k |-> "NaN"]
Infinity == [k |-> "Infinity"]
Bool(b) == [k |-> "boolean", b |-> b]
Num(n) == [k |-> "number", n |-> n]
Str(s) == [k |-> "string", s |-> s]
Obj(fields) == [k |-> "object", fields |-> fields]
Arr(items) == [k |-> "array", items |-> items]

\* typeof v
TypeOf(v) ==
    CASE v.k \in {"number", "NaN", "Infinity"} -> "number"
      [] v.k \in {"null", "object", "array"} -> "object"
      [] OTHER -> v.k

\* ToBoolean(v), as the conditions `if (v)`, `!v`, `a && b`, `a || b` apply it
Truthy(v) ==
    CASE v.k \in {"undefined", "null", "NaN"} -> FALSE
      [] v.k = "boolean" -> v.b
      [] v.k = "number" -> v.n # 0
      [] v.k = "string" -> v.s # ""
      [] OTHER -> TRUE

\* Array.isArray(v)
IsArray(v) == v.k = "array"

\* Number.isFinite(v): no coercion, true of finite numbers only
IsFinite(v) == v.k = "number"

\* Object.keys(o), o an object
ObjectKeys(o) == [i \in 1..Len(o.fields) |-> o.fields[i][1]]

HasOwn(o, key) == o.k = "object" /\ \E i \in 1..Len(o.fields) : o.fields[i][1] = key

\* o[key] where o is not null or undefined: a missing property reads undefined
Get(o, key) ==
    IF HasOwn(o, key)
    THEN o.fields[CHOOSE i \in 1..Len(o.fields) : o.fields[i][1] = key][2]
    ELSE Undefined

\* o[key] = value: an existing key keeps its place, a new key goes last
SetProp(o, key, value) ==
    IF HasOwn(o, key)
    THEN Obj([i \in 1..Len(o.fields) |->
                 IF o.fields[i][1] = key THEN <<key, value>> ELSE o.fields[i]])
    ELSE Obj(Append(o.fields, <<key, value>>))

\* The decimal literals among the strings of the model, with their values;
\* StringToNumber of the empty string is 0, of any other string NaN.
DecimalLiterals == {<<"7", 7>>, <<"12", 12>>}

\* Number(v). An array is converted through its string form: "" when empty,
\* the element's own string form when it has one element, a text with
\* commas (no number) otherwise. A plain object gives NaN.
RECURSIVE ToNumber(_)
ToNumber(v) ==
    CASE v.k \in {"number", "NaN", "Infinity"} -> v
      [] v.k = "null" -> Num(0)
      [] v.k = "boolean" -> IF v.b THEN Num(1) ELSE Num(0)
      [] v.k = "string" ->
            IF v.s = "" THEN Num(0)
            ELSE IF \E p \in DecimalLiterals : p[1] = v.s
                 THEN Num((CHOOSE p \in DecimalLiterals : p[1] = v.s)[2])
                 ELSE NaN
      [] v.k = "array" ->
            IF Len(v.items) = 0 THEN Num(0)
            ELSE IF Len(v.items) > 1 THEN NaN
            ELSE IF v.items[1].k \in {"null", "undefined"} THEN Num(0)
            ELSE IF v.items[1].k \in {"boolean", "object"} THEN NaN
            ELSE ToNumber(v.items[1])
      [] OTHER -> NaN

\* The least index of a non-empty set of indices (Array.prototype.find visits
\* the elements in ascending index order and stops at the first hit)
FirstOf(S) == CHOOSE i \in S : \A j \in S : i <= j

\* No value recorded yet (bookkeeping of the model, not a JavaScript value)
None == [k |-> "none"]

-----------------------------------------------------------------------------
(* App: the query text *)

MaxQueryLen == 1

\* Characters a user types: a blank and a letter
Alphabet == {" ", "q"}

\* What String.prototype.trim strips
WhiteSpace == {" ", "\t", "\n"}

\* "Show me the top 5 products by revenue last quarter"
SuggestionTopProducts ==
        <<"S", "h", "o", "w", " ", "m", "e", " ", "t", "h", "e", " ", "t", "o",
          "p", " ", "5", " ", "p", "r", "o", "d", "u", "c", "t", "s", " ", "b",
          "y", " ", "r", "e", "v", "e", "n", "u", "e", " ", "l", "a", "s", "t",
          " ", "q", "u", "a", "r", "t", "e", "r">>

\* "How many users signed up this month compared to last?"
SuggestionSignups ==
        <<"H", "o", "w", " ", "m", "a", "n", "y", " ", "u", "s", "e", "r", "s",
          " ", "s", "i", "g", "n", "e", "d", " ", "u", "p", " ", "t", "h", "i",
          "s", " ", "m", "o", "n", "t", "h", " ", "c", "o", "m", "p", "a", "r",
          "e", "d", " ", "t", "o", " ", "l", "a", "s", "t", "?">>

\* "Total orders per region for the previous year"
SuggestionOrders ==
        <<"T", "o", "t", "a", "l", " ", "o", "r", "d", "e", "r", "s", " ", "p",
          "e", "r", " ", "r", "e", "g", "i", "o", "n", " ", "f", "o", "r", " ",
          "t", "h", "e", " ", "p", "r", "e", "v", "i", "o", "u", "s", " ", "y",
          "e", "a", "r">>

\* "Average session duration for premium customers"
SuggestionSessions ==
        <<"A", "v", "e", "r", "a", "g", "e", " ", "s", "e", "s", "s", "i", "o",
          "n", " ", "d", "u", "r", "a", "t", "i", "o", "n", " ", "f", "o", "r",
          " ", "p", "r", "e", "m", "i", "u", "m", " ", "c", "u", "s", "t", "o",
          "m", "e", "r", "s">>

\* The suggestions memo
suggestions ==
    {SuggestionTopProducts, SuggestionSignups, SuggestionOrders, SuggestionSessions}

\* The texts e.target.value may hold
QueryTexts == UNION {[1..m -> Alphabet] : m \in 0..MaxQueryLen}

\* String.prototype.trim
RECURSIVE TrimStart(_)
TrimStart(s) ==
    IF s # <<>> /\ Head(s) \in WhiteSpace THEN TrimStart(Tail(s)) ELSE s

RECURSIVE TrimEnd(_)
TrimEnd(s) ==
    IF s # <<>> /\ s[Len(s)] \in WhiteSpace
    THEN TrimEnd(SubSeq(s, 1, Len(s) - 1))
    ELSE s

Trim(s) == TrimEnd(TrimStart(s))

\* A comparison with "" that forgets the trim
QueryIsEmpty(q) == q = <<>>

\* query.trim() === ""
QueryIsBlank(q) == Trim(q) = <<>>

-----------------------------------------------------------------------------
(* App: what response.json() resolves with *)

ResultsValues == {Arr(<<>>), Arr(<<Obj(<<<<"v", Num(5)>>>>)>>), Null, Bool(FALSE)}
SqlValues == {Str("SELECT 1")}
LatencyValues == {Obj(<<<<"total_time", Num(1)>>>>), Null}
DetailValues == {Str("no such table"), Str("")}

\* A member that may be absent: no pair, or the pair
Member(key, values) == {<<>>} \cup {<<<<key, v>>>> : v \in values}

\* The JSON bodies: null, a bare number, and objects with any of the four members
Bodies ==
    {Null, Num(5)} \cup
    {Obj(r \o q \o l \o d) :
        r \in Member("results", ResultsValues),
        q \in Member("sql_query", SqlValues),
        l \in Member("latency", LatencyValues),
        d \in Member("detail", DetailValues)}

-----------------------------------------------------------------------------
(* App: handleQuery *)

MaxPending == 2

\* A submit button that is never disabled
ButtonAlwaysEnabled == FALSE

\* disabled={isLoading} on the submit button
ButtonDisabled == isLoading

\* Reading a property of null or undefined throws a TypeError
IsNullish(v) == v.k \in {"null", "undefined"}

\* a ?? b
Coalesce(a, b) == IF IsNullish(a) THEN b ELSE a

\* a || b
OrElse(a, b) == IF Truthy(a) THEN a ELSE b

\* A try block that ends before the body is parsed
TryCoversFetchOnly == {"fetch"}

\* The steps of handleQuery inside try { ... }: the fetch, the body parse
\* and the reads of data's members
TryCovers == {"fetch", "json", "read"}

\* The four result fields as handleQuery finds them
Shown == [sqlOutput |-> sqlOutput, latency |-> latency,
          chartData |-> chartData, error |-> error]

\* A success branch that stores data.latency without the ?? null default
SuccessBranchRawLatency(d, cur) ==
    [sqlOutput |-> Get(d, "sql_query"),
     latency |-> Get(d, "latency"),
     chartData |-> Get(d, "results"),
     error |-> cur.error]

\* if (data.results) { ... }
SuccessBranch(d, cur) ==
    [sqlOutput |-> Get(d, "sql_query"),
     latency |-> Coalesce(Get(d, "latency"), Null),
     chartData |-> Get(d, "results"),
     error |-> cur.error]

\* An else branch that clears the SQL text instead of showing the notice
ElseBranchClearsSql(d, cur) ==
    [sqlOutput |-> Str(""),
     latency |-> Null,
     chartData |-> Null,
     error |-> OrElse(Get(d, "detail"), Str("Unable to generate SQL query."))]

\* else { ... }
ElseBranch(d, cur) ==
    [sqlOutput |-> Str("Error generating SQL query"),
     latency |-> Null,
     chartData |-> Null,
     error |-> OrElse(Get(d, "detail"), Str("Unable to generate SQL query."))]

\* catch (error) { ... }
CatchBranch(cur) ==
    [sqlOutput |-> Str(""),
     latency |-> Null,
     chartData |-> Null,
     error |-> Str("There was a problem connecting to the server.")]

\* An exception thrown at `step`: caught when the step is inside the try
Thrown(step, cur) ==
    IF step \in TryCovers
    THEN [fields |-> CatchBranch(cur), threw |-> FALSE]
    ELSE [fields |-> cur, threw |-> TRUE]

\* The statements after `const data = await response.json()`
AfterJson(d, cur) ==
    IF IsNullish(d) THEN Thrown("read", cur)
    ELSE IF Truthy(Get(d, "results"))
    THEN [fields |-> SuccessBranch(d, cur), threw |-> FALSE]
    ELSE [fields |-> ElseBranch(d, cur), threw |-> FALSE]

\* setIsLoading(false) as the last statement of the try block: skipped
\* when the catch block ran
AfterTrySkippedOnCatch(r, loading) ==
    IF r.threw \/ r.fields.error = Str("There was a problem connecting to the server.")
    THEN [isLoading |-> loading, resets |-> 0]
    ELSE [isLoading |-> FALSE, resets |-> 1]

\* setIsLoading(false) after the try statement, reached unless an exception
\* left the function: the loading flag and the number of times it was reset
AfterTry(r, loading) ==
    IF r.threw THEN [isLoading |-> loading, resets |-> 0]
    ELSE [isLoading |-> FALSE, resets |-> 1]

Remove(seq, i) == SubSeq(seq, 1, i - 1) \o SubSeq(seq, i + 1, Len(seq))

\* Invocation i of handleQuery runs to its end with result r
Finish(i, r) ==
    /\ sqlOutput' = r.fields.sqlOutput
    /\ latency' = r.fields.latency
    /\ chartData' = r.fields.chartData
    /\ error' = r.fields.error
    /\ isLoading' = AfterTry(r, isLoading).isLoading
    /\ finished' = [k |-> "done", prevError |-> pending[i].prevError,
                    resets |-> AfterTry(r, isLoading).resets, threw |-> r.threw]
    /\ pending' = Remove(pending, i)
    /\ UNCHANGED query

AppInitial ==
    /\ query = <<>>
    /\ sqlOutput = Str("")
    /\ latency = Null
    /\ chartData = Null
    /\ isLoading = FALSE
    /\ error = Str("")
    /\ pending = <<>>
    /\ finished = None
    /\ lastEvent = None

-----------------------------------------------------------------------------
(* ChartPreview *)

\* row && typeof row === "object"
IsObjectRow(row) == Truthy(row) /\ TypeOf(row) = "object"

\* ["string", "number"].includes(typeof sample[key])
IsCategoryValue(sample, key) == TypeOf(Get(sample, key)) \in {"string", "number"}

\* typeof value === "number" && Number.isFinite(value)
IsSeriesValue(sample, key) ==
    TypeOf(Get(sample, key)) = "number" /\ IsFinite(Get(sample, key))

\* possibleKeys.find(...): the key as a string value, or undefined
FindXKey(sample) ==
    LET possibleKeys == ObjectKeys(sample)
        hits == {i \in 1..Len(possibleKeys) : IsCategoryValue(sample, possibleKeys[i])}
    IN  IF hits = {} THEN Undefined ELSE Str(possibleKeys[FirstOf(hits)])

\* possibleKeys.filter(...)
FilterYKeys(sample, xKey) ==
    LET Test(key) == key # xKey /\ IsSeriesValue(sample, key)
    IN  SelectSeq(ObjectKeys(sample), Test)

\* if (!xKey) return null
XKeyMissing(xKey) == ~Truthy(xKey)

\* data.find((row) => row && typeof row === "object"): the row, or undefined
FindSample(items) ==
    LET hits == {i \in 1..Len(items) : IsObjectRow(items[i])}
    IN  IF hits = {} THEN Undefined ELSE items[FirstOf(hits)]

\* The chartStructure memo: null, or {xKey, yKeys}
InferStructure(d) ==
    IF ~IsArray(d) \/ Len(d.items) = 0 THEN Null
    ELSE LET sample == FindSample(d.items)
             xKey == FindXKey(sample)
         IN  IF ~Truthy(sample) THEN Null
             ELSE IF Len(ObjectKeys(sample)) = 0 THEN Null
             ELSE IF XKeyMissing(xKey) THEN Null
             ELSE IF Len(FilterYKeys(sample, xKey.s)) = 0 THEN Null
             ELSE [k |-> "structure", xKey |-> xKey.s,
                   yKeys |-> FilterYKeys(sample, xKey.s)]

\* A sanitiser that keeps whatever Number() returned
SanitizeValueKeepsNaN(raw) == ToNumber(raw)

\* const value = Number(row[key]); Number.isFinite(value) ? value : null
SanitizeValue(raw) == IF IsFinite(ToNumber(raw)) THEN ToNumber(raw) ELSE Null

\* chartStructure.yKeys.forEach: entry[key] = ... for the keys from i on
RECURSIVE FillYKeys(_, _, _, _)
FillYKeys(entry, row, yKeys, i) ==
    IF i > Len(yKeys) THEN entry
    ELSE FillYKeys(SetProp(entry, yKeys[i], SanitizeValue(Get(row, yKeys[i]))),
                   row, yKeys, i + 1)

\* The body of the map callback: the entry built from one row
SanitizeRow(row, structure) ==
    SetProp(FillYKeys(Obj(<<>>), row, structure.yKeys, 1),
            structure.xKey, Get(row, structure.xKey))

\* The sanitized memo: the rows handed to the chart
SanitizeRows(d, structure) ==
    IF structure = Null THEN <<>>
    ELSE LET kept == SelectSeq(d.items, IsObjectRow)
         IN  [i \in 1..Len(kept) |-> SanitizeRow(kept[i], structure)]

\* What ChartPreview returns
Display(structure, rows) ==
    IF structure = Null \/ Len(rows) = 0 THEN "placeholder" ELSE "chart"

-----------------------------------------------------------------------------
(* The inputs of ChartPreview *)

MaxRows == 2
MaxFields == 2

\* Field names: two column names, and the empty string, which is a legal
\* JSON member name. None of them is an array index, so Object.keys lists
\* the fields in the order the body gave them (the order they were set in).
Columns == {"name", "value"}
Keys == Columns \cup {""}

\* Field values a JSON body yields (1e999 parses to Infinity)
CellValues == {Num(5), Str("A"), Str("7"), Null, Infinity}

\* The sequences over S of length at most n
SeqsUpTo(S, n) == UNION {[1..m -> S] : m \in 0..n}

\* Objects: every order of every choice of at most MaxFields distinct keys
ObjectsOver(K) ==
    {Obj(f) : f \in {g \in SeqsUpTo(K \X CellValues, MaxFields) :
                        \A i, j \in 1..Len(g) : i # j => g[i][1] # g[j][1]}}

\* Array items: plain objects, and items that are no objects
RowsOver(K) == ObjectsOver(K) \cup {Null, Num(3)}

\* The data prop: null before the first result, then whatever `results` held
ChartInputsOver(K) == {Null} \cup {Arr(items) : items \in SeqsUpTo(RowsOver(K), MaxRows)}

ChartIdle ==
    /\ data = Null
    /\ chartStructure = Null
    /\ sanitized = <<>>
    /\ display = "unmounted"
    /\ firstRun = None

\* ChartPreview is mounted with some data prop whose fields are among K
ChartMounted(K) ==
    /\ AppInitial
    /\ data \in ChartInputsOver(K)
    /\ chartStructure = Null
    /\ sanitized = <<>>
    /\ display = "unmounted"
    /\ firstRun = None

ChartInit == ChartMounted(Columns)

AnyKeyChartInit == ChartMounted(Keys)

\* One render of ChartPreview: both memos and the returned element
ChartRender ==
    /\ display = "unmounted"
    /\ chartStructure' = InferStructure(data)
    /\ sanitized' = SanitizeRows(data, chartStructure')
    /\ display' = Display(chartStructure', sanitized')
    /\ UNCHANGED <<data, firstRun>>
    /\ UNCHANGED appVars

\* ChartPreview rendered again with its own sanitized rows as the data prop
ChartRerender ==
    /\ display # "unmounted"
    /\ firstRun = None
    /\ firstRun' = [k |-> "run", input |-> data, structure |-> chartStructure,
                    rows |-> sanitized]
    /\ data' = Arr(sanitized)
    /\ chartStructure' = InferStructure(data')
    /\ sanitized' = SanitizeRows(data', chartStructure')
    /\ display' = Display(chartStructure', sanitized')
    /\ UNCHANGED appVars

ChartNext == ChartRender \/ ChartRerender

\* ChartPreview on result sets with the columns name and value
ChartSpec == ChartInit /\ [][ChartNext]_vars

\* ChartPreview on result sets whose field names may be empty
AnyKeyChartSpec == AnyKeyChartInit /\ [][ChartNext]_vars

-----------------------------------------------------------------------------
(* App: the events *)

\* onChange={(e) => setQuery(e.target.value)}
Edit(text) ==
    /\ query' = text
    /\ lastEvent' = [k |-> "edit"]
    /\ UNCHANGED <<sqlOutput, latency, chartData, isLoading, error, pending, finished>>
    /\ UNCHANGED chartVars

\* onClick={() => setQuery(suggestion)}
Suggest(suggestion) ==
    /\ query' = suggestion
    /\ lastEvent' = [k |-> "suggest"]
    /\ UNCHANGED <<sqlOutput, latency, chartData, isLoading, error, pending, finished>>
    /\ UNCHANGED chartVars

\* A click handler that does not call setError("")
ClickKeepsError ==
    /\ ~ButtonDisabled
    /\ lastEvent' = [k |-> "click"]
    /\ IF QueryIsBlank(query)
       THEN UNCHANGED <<isLoading, pending>>
       ELSE /\ Len(pending) < MaxPending
            /\ isLoading' = TRUE
            /\ pending' = Append(pending, [pc |-> "fetch", question |-> query,
                                           prevError |-> error])
    /\ UNCHANGED <<query, sqlOutput, latency, chartData, finished, error>>
    /\ UNCHANGED chartVars

\* A click on the submit button: handleQuery up to its first await
Click ==
    /\ ~ButtonDisabled
    /\ lastEvent' = [k |-> "click"]
    /\ IF QueryIsBlank(query)
       THEN UNCHANGED <<error, isLoading, pending>>
       ELSE /\ Len(pending) < MaxPending
            /\ error' = Str("")
            /\ isLoading' = TRUE
            /\ pending' = Append(pending, [pc |-> "fetch", question |-> query,
                                           prevError |-> error])
    /\ UNCHANGED <<query, sqlOutput, latency, chartData, finished>>
    /\ UNCHANGED chartVars

\* await fetch(...) rejects
FetchReject(i) ==
    /\ pending[i].pc = "fetch"
    /\ lastEvent' = [k |-> "fetchReject"]
    /\ Finish(i, Thrown("fetch", Shown))
    /\ UNCHANGED chartVars

\* await fetch(...) resolves with a response
FetchResolve(i) ==
    /\ pending[i].pc = "fetch"
    /\ lastEvent' = [k |-> "fetchResolve"]
    /\ pending' = [pending EXCEPT ![i].pc = "json"]
    /\ UNCHANGED <<query, sqlOutput, latency, chartData, isLoading, error, finished>>
    /\ UNCHANGED chartVars

\* await response.json() rejects: the body is no JSON
JsonReject(i) ==
    /\ pending[i].pc = "json"
    /\ lastEvent' = [k |-> "jsonReject"]
    /\ Finish(i, Thrown("json", Shown))
    /\ UNCHANGED chartVars

\* await response.json() resolves with d
JsonResolve(i, d) ==
    /\ pending[i].pc = "json"
    /\ lastEvent' = [k |-> "jsonResolve", data |-> d]
    /\ Finish(i, AfterJson(d, Shown))
    /\ UNCHANGED chartVars

Settle ==
    \E i \in 1..Len(pending) :
        \/ FetchReject(i)
        \/ FetchResolve(i)
        \/ JsonReject(i)
        \/ \E d \in Bodies : JsonResolve(i, d)

Init == AppInitial /\ ChartIdle

Next ==
    \/ \E text \in QueryTexts : Edit(text)
    \/ \E suggestion \in suggestions : Suggest(suggestion)
    \/ Click
    \/ \E i \in 1..Len(pending) : FetchReject(i)
    \/ \E i \in 1..Len(pending) : FetchResolve(i)
    \/ \E i \in 1..Len(pending) : JsonReject(i)
    \/ \E i \in 1..Len(pending), d \in Bodies : JsonResolve(i, d)

Spec == Init /\ [][Next]_vars

\* Every request the browser sends settles: fetch and the body read end
FairSpec == Spec /\ WF_vars(Settle)

-----------------------------------------------------------------------------
(* Properties of handleQuery *)

ConnectivityMessage == Str("There was a problem connecting to the server.")
FallbackMessage == Str("Unable to generate SQL query.")
ErrorNotice == Str("Error generating SQL query")

\* A text that is empty or holds nothing but blanks, tabs and line breaks
WhitespaceOnly(q) == \A i \in 1..Len(q) : q[i] \in {" ", "\t", "\n"}

\* The values JavaScript treats as false in a condition
Falsy == {Undefined, Null, NaN, Bool(FALSE), Num(0), Str("")}

\* The last step settled a request with a parsed body that is not null
SettledWithBody == lastEvent.k = "jsonResolve" /\ lastEvent.data # Null

\* The last step settled a request at the transport level
SettledByTransport == lastEvent.k \in {"fetchReject", "jsonReject"}

\* A step that dispatches a request, and one that completes an invocation
Dispatches == Len(pending') = Len(pending) + 1
Completes == Len(pending') = Len(pending) - 1

C2_BlankSubmitChangesNothing ==
    [][(lastEvent'.k = "click" /\ WhitespaceOnly(query))
        => UNCHANGED <<query, sqlOutput, latency, chartData, isLoading, error,
                       pending, finished>>]_vars

\* C2 witness: the submit button was clicked on a query of one blank
C2_Witness ==
    /\ lastEvent.k = "click"
    /\ query = <<" ">>
    /\ ~isLoading
    /\ pending = <<>>

\* C3 as stated: a parsed body without a usable results member leaves sql
\* empty, latency and chartData null, and error the body's detail, or the
\* fallback message when detail is absent.
C3_AsStated ==
    (/\ SettledWithBody
     /\ lastEvent.data.k = "object"
     /\ Get(lastEvent.data, "results") \in {Undefined, Null})
    => /\ sqlOutput = Str("")
       /\ latency = Null
       /\ chartData = Null
       /\ error = IF HasOwn(lastEvent.data, "detail")
                  THEN Get(lastEvent.data, "detail")
                  ELSE FallbackMessage

\* C3 as amended: a parsed body other than null whose results member is
\* absent or falsy leaves sql = "Error generating SQL query", latency and
\* chartData null, and error the body's detail when that is a non-empty
\* string, and the fallback message when detail is absent or empty.
C3_ApplicationError ==
    (/\ SettledWithBody
     /\ Get(lastEvent.data, "results") \in Falsy)
    => /\ sqlOutput = ErrorNotice
       /\ latency = Null
       /\ chartData = Null
       /\ error = IF Get(lastEvent.data, "detail") \in Falsy
                  THEN FallbackMessage
                  ELSE Get(lastEvent.data, "detail")
       /\ ~isLoading

\* C3 witness: the body {"detail": "no such table"} has settled
C3_Witness ==
    /\ lastEvent = [k |-> "jsonResolve",
                    data |-> Obj(<<<<"detail", Str("no such table")>>>>)]
    /\ error = Str("no such table")
    /\ sqlOutput = ErrorNotice

\* C4: when fetch rejects or the body cannot be parsed, error is the
\* connectivity message, sql is empty, latency and chartData are null, and
\* no exception leaves handleQuery.
C4_TransportFailure ==
    SettledByTransport
    => /\ error = ConnectivityMessage
       /\ sqlOutput = Str("")
       /\ latency = Null
       /\ chartData = Null
       /\ finished # None
       /\ ~finished.threw

\* C4 witness: the body of a response could not be parsed
C4_Witness ==
    /\ lastEvent.k = "jsonReject"
    /\ error = ConnectivityMessage
    /\ finished # None
    /\ ~finished.threw

\* What C5 promises of a body with the given results member
StoresResults(body) ==
    /\ sqlOutput = Get(body, "sql_query")
    /\ latency = IF HasOwn(body, "latency") THEN Get(body, "latency") ELSE Null
    /\ chartData = Get(body, "results")
    /\ error = Str("")

\* C5 as stated: a body with a non-null results member is stored: sql is its
\* sql_query, latency its latency (null if absent), chartData its results,
\* and error is empty whatever the previous cycle left.
C5_AsStated ==
    (/\ SettledWithBody
     /\ HasOwn(lastEvent.data, "results")
     /\ Get(lastEvent.data, "results") # Null)
    => StoresResults(lastEvent.data)

\* C5 as amended: a body whose results member is truthy (every array, the
\* empty one included) is stored: sql is its sql_query, latency its latency
\* (null if absent), chartData its results, and error is empty whatever the
\* previous cycle left.
C5_Success ==
    (/\ SettledWithBody
     /\ Get(lastEvent.data, "results") \notin Falsy)
    => StoresResults(lastEvent.data)

\* C5 witness: rows arrived in a cycle that began with an error on display
C5_Witness ==
    /\ lastEvent.k = "jsonResolve"
    /\ chartData = Arr(<<Obj(<<<<"v", Num(5)>>>>)>>)
    /\ sqlOutput = Str("SELECT 1")
    /\ latency = Obj(<<<<"total_time", Num(1)>>>>)
    /\ finished.prevError # Str("")
    /\ error = Str("")

\* C6: in every reachable state loading is true exactly when a dispatched
\* request has not settled, and at most one request is in flight: the
\* disabled submit button dispatches nothing while loading is true.
C6_LoadingIffInFlight ==
    /\ isLoading <=> Len(pending) >= 1
    /\ Len(pending) <= 1

\* C6 witness: the query was edited while a request awaits its body
C6_Witness ==
    /\ isLoading
    /\ Len(pending) = 1
    /\ pending[1].pc = "json"
    /\ lastEvent.k = "edit"
    /\ query # pending[1].question

\* C7 as stated: while loading is true, error is empty and sql shows nothing
\* left over from an earlier cycle.
C7_AsStated == isLoading => (error = Str("") /\ sqlOutput = Str(""))

\* C7 as amended: while loading is true, error is the empty string, because
\* each dispatch clears the prior error before the request is issued.
C7_NoStaleError == isLoading => error = Str("")

\* C7 witness: a request is in flight in a cycle that began with an error on
\* display
C7_Witness ==
    /\ isLoading
    /\ Len(pending) = 1
    /\ pending[1].prevError # Str("")
    /\ error = Str("")

-----------------------------------------------------------------------------
(* Properties of ChartPreview *)

\* ChartPreview has rendered its input once, and `data` is still that input
RenderedOnce == display # "unmounted" /\ firstRun = None

Least(S) == CHOOSE i \in S : \A j \in S : i <= j

\* The positions of the rows that are non-null objects
ObjectRowsAt(items) == {i \in 1..Len(items) : items[i].k = "object"}

\* The position of the j-th row that is a non-null object
NthObjectRow(items, j) ==
    CHOOSE i \in ObjectRowsAt(items) :
        Cardinality({m \in ObjectRowsAt(items) : m <= i}) = j

\* A value whose type is string or number; a finite number
StringOrNumber(v) == v.k \in {"string", "number", "Infinity", "NaN"}
FiniteNumber(v) == v.k = "number"

\* The shape C9 describes, read off the first row that is a non-null object
ShapeOfSample(sample) ==
    LET f == sample.fields
        cats == {i \in 1..Len(f) : StringOrNumber(f[i][2])}
    IN  IF cats = {} THEN Null
        ELSE LET c == Least(cats)
                 others == {i \in 1..Len(f) : i # c /\ FiniteNumber(f[i][2])}
                 IsOther(pair) == pair[1] # f[c][1] /\ FiniteNumber(pair[2])
                 picked == SelectSeq(f, IsOther)
             IN  IF others = {} THEN Null
                 ELSE [k |-> "structure", xKey |-> f[c][1],
                       yKeys |-> [i \in 1..Len(picked) |-> picked[i][1]]]

ShapeAsStated(d) ==
    IF d.k # "array" THEN Null
    ELSE IF ObjectRowsAt(d.items) = {} THEN Null
    ELSE ShapeOfSample(d.items[Least(ObjectRowsAt(d.items))])

\* C8 as stated: when a shape was inferred, inference and sanitisation run
\* again on the sanitized rows give the same category key, the same value
\* keys and the same row values as the first run.
C8_AsStated ==
    (firstRun # None /\ firstRun.structure # Null)
    => /\ chartStructure = firstRun.structure
       /\ Len(sanitized) = Len(firstRun.rows)
       /\ \A j \in 1..Len(sanitized) :
            \A key \in {firstRun.structure.xKey} \cup
                       {firstRun.structure.yKeys[i] :
                            i \in 1..Len(firstRun.structure.yKeys)} :
                Get(sanitized[j], key) = Get(firstRun.rows[j], key)

\* C9 as stated: the inferred shape is the one the first non-null object row
\* gives: the category key is its first field holding a string or a number,
\* the value keys are its other fields holding a finite number, in field
\* order; there is no chart when the input is no non-empty array, has no
\* object row, no category key, or no value key.
C9_AsStated == RenderedOnce => chartStructure = ShapeAsStated(data)

\* numeric coercion, null when it fails or is not finite
Coerced(v) == IF ToNumber(v).k = "number" THEN ToNumber(v) ELSE Null

\* C10: when a shape is inferred, the sanitized rows are, in input order, one
\* record per input row that is a non-null object; each record holds the
\* category key with the row's raw value and each value key with the numeric
\* coercion of the row's value, or null when that is not a finite number,
\* and nothing else.
C10_SanitizedProjection ==
    (RenderedOnce /\ chartStructure # Null)
    => /\ Len(sanitized) = Cardinality(ObjectRowsAt(data.items))
       /\ \A j \in 1..Len(sanitized) :
            LET row == data.items[NthObjectRow(data.items, j)]
                yKeys == {chartStructure.yKeys[i] : i \in 1..Len(chartStructure.yKeys)}
            IN  /\ {sanitized[j].fields[i][1] : i \in 1..Len(sanitized[j].fields)}
                      = yKeys \cup {chartStructure.xKey}
                /\ Len(sanitized[j].fields) = Cardinality(yKeys) + 1
                /\ Get(sanitized[j], chartStructure.xKey) = Get(row, chartStructure.xKey)
                /\ \A y \in yKeys : Get(sanitized[j], y) = Coerced(Get(row, y))

\* C10 witness: [{name: "A", value: 5}, {name: "7", value: "A"}] was rendered
\* and the second row's value, which is no number, became null
C10_Witness ==
    /\ RenderedOnce
    /\ chartStructure # Null
    /\ data = Arr(<<Obj(<<<<"name", Str("A")>>, <<"value", Num(5)>>>>),
                    Obj(<<<<"name", Str("7")>>, <<"value", Str("A")>>>>)>>)
    /\ chartStructure = [k |-> "structure", xKey |-> "name", yKeys |-> <<"value">>]
    /\ Get(sanitized[2], "name") = Str("7")
    /\ Get(sanitized[2], "value") = Null

====
